---- MODULE Spec2Model ----
(***************************************************************************)
(* Model of src/main.py: the GET /volatility/{symbol} handler              *)
(* (get_volatility).  One request is followed from the evaluation of the   *)
(* wall clock, through the pagination loop against the exchange's klines   *)
(* endpoint, to the VolatilityResponse or the HTTPException it ends with.  *)
(*                                                                         *)
(* Numbers.  Times are integers in milliseconds, counted from an origin a  *)
(* few hours before "now"; a naive local datetime is the number of         *)
(* milliseconds its wall-clock reading is after that of the origin, with   *)
(* its fold.  A price is the float that float() makes of its text, bit for *)
(* bit: a record [nan, inf, sign, m, q], nan = TRUE for NaN, inf = 1 or -1 *)
(* for an infinity, otherwise the float sign * m * 2^q, the mantissa m a   *)
(* whole number below 2^53 given by its digits to the base 2^15, the least *)
(* significant first (<<>> is 0, so that 0.0 and -0.0 differ in sign       *)
(* only), and q >= -1074 the least exponent that m fits with.  The         *)
(* quotient of two prices is rounded as the float division rounds it where *)
(* that can show: to an infinity, to a zero, or to a multiple of 2^-1074.  *)
(* A computed value is a record [nan, inf, v, e], the number v * 10^e      *)
(* unless nan or inf say otherwise: a log return carries ScaleDigits       *)
(* decimals (e = -6), a standard deviation these and up to two more, and a *)
(* volatility is in basis points with two decimals (e = -2), which is      *)
(* std * sqrt(12) * 10000.  Strings the code transforms (the symbol, the   *)
(* prices on the wire) are sequences of ASCII codes.                       *)
(***************************************************************************)
EXTENDS Integers, Sequences, FiniteSets, TLC

(***************************************************************************)
(* Bounds of the model                                                     *)
(***************************************************************************)
MaxLookbackHours == 2
SmallPage == 1
MaxStale == 1
MaxRequests == 60

(***************************************************************************)
(* Program constants                                                       *)
(***************************************************************************)
limit == 1000
step_ms == 300000
minutes_per_interval == 5
intervals_per_hour == 60 \div minutes_per_interval
window_size == intervals_per_hour
\* timedelta(hours = 1) in milliseconds
MsPerHour == 60 * 60 * 1000
\* decimals kept of a log return
ScaleDigits == 6
\* the bits of a float's mantissa, and the exponents of the floats: the
\* least float is 2^MinBinExp, every float is less than 2^MaxBinExp
MantissaBits == 53
MinBinExp == 0 - 1074
MaxBinExp == 1024
\* the decimal exponents of the greatest float, 1.797...e308, and of the
\* least, 4.94...e-324
MaxDecExp == 308
MinDecExp == 0 - 324
\* no float and no middle of two floats has more significant digits
MaxSig == 800
\* whole numbers are held in limbs of LimbBits bits
LimbBits == 15
Base == 32768
\* bits of a mantissa the logarithm is taken of
LogBits == 26
\* lines 73-77: the column names given to the frame
columns ==
    <<"timestamp", "open", "high", "low", "close", "volume", "close_time",
      "quote_volume", "trades", "taker_buy_base", "taker_buy_quote", "ignore">>
\* line 80: the columns converted to float, in the order of the for loop
FloatColumns == <<"open", "high", "low", "close">>

(***************************************************************************)
(* Inputs of a request and the environment it runs in                      *)
(***************************************************************************)
\* "bTc" and "BTC" as character codes
Symbols == { <<98, 84, 99>>, <<66, 84, 67>> }
Intervals == {"3m", "5m", "1h"}
Lookbacks == (0 - 1) .. MaxLookbackHours
\* instants at which the clock is read: one on every candle grid, one on none
NowOnGrid == 4 * MsPerHour
NowOffGrid == 4 * MsPerHour + 123456
\* the host's time zone: no transition near the request, or the clocks went
\* forward (back) one hour at the instant `at`
Zones ==
    { [kind |-> "fixed", at |-> 0],
      [kind |-> "forward", at |-> NowOffGrid - 30 * 60000],
      [kind |-> "back", at |-> NowOnGrid - 30 * 60000],
      [kind |-> "back", at |-> NowOffGrid - 90 * 60000] }
\* the instants of the requests followed in each zone
NowsOf(z) ==
    IF z.kind = "fixed" THEN {NowOnGrid, NowOffGrid}
    ELSE IF z.at + 30 * 60000 = NowOnGrid THEN {NowOnGrid} ELSE {NowOffGrid}
\* what the exchange holds: every candle, nothing, or nothing after HaltMs
Holdings == {"dense", "none", "halted"}
HaltMs == 3 * MsPerHour + 20 * 60000
\* the prices the exchange reports.  "flat", "burst": whole numbers;
\* "decimal": eight decimals, as the exchange prints them; "tiny": prices
\* of about a thousandth of a cent; "leap": the same, but every sixteenth
\* close is about 1e304; "garbled": every seventh close is "n/a"; "badopen":
\* every seventh open is "n/a"; "dip": every sixteenth close is "-5";
\* "short": rows of 11 fields; "ragged": one row in 32 stops after its low
PricePaths ==
    {"flat", "burst", "decimal", "tiny", "leap", "garbled", "badopen", "dip",
     "short", "ragged"}
\* the most candles the exchange puts in one page
PageCaps == {SmallPage, limit}
Sources ==
    { s \in [hold : Holdings, path : PricePaths, cap : PageCaps] :
        /\ s.hold = "none" => (s.path = "flat" /\ s.cap = limit)
        /\ s.hold = "halted" => (s.path = "burst" /\ s.cap = limit)
        /\ s.path = "flat" => s.cap = limit
        /\ s.path \notin {"flat", "burst"} => (s.hold = "dense" /\ s.cap = limit) }

\* the exchange's candle grid for an interval string
IntervalMs(iv) == IF iv = "3m" THEN 180000 ELSE IF iv = "5m" THEN 300000 ELSE 3600000

Min2(a, b) == IF a <= b THEN a ELSE b
Max2(a, b) == IF a >= b THEN a ELSE b
RECURSIVE Pow10(_)
Pow10(k) == IF k <= 0 THEN 1 ELSE 10 * Pow10(k - 1)
Last(s) == s[Len(s)]

\* decimal digits of a positive integer, most significant first, as text
RECURSIVE Digits(_)
Digits(n) == IF n < 10 THEN <<48 + n>> ELSE Append(Digits(n \div 10), 48 + (n % 10))

\* the whole part of the close the exchange reports for the candle opening
\* at t
ClosePrice(path, g, t) ==
    IF path \in {"burst", "decimal", "tiny", "leap", "dip", "ragged"} /\ (t \div g) % 7 = 0
    THEN 1002 ELSE 1000

\* open times of the candles held in [lo, hi], ascending
HeldTimes(src, g, lo, hi) ==
    LET top == IF src.hold = "halted" THEN Min2(hi, HaltMs) ELSE hi
        first == ((lo + g - 1) \div g) * g
        cnt == IF src.hold = "none" \/ first > top THEN 0 ELSE (top - first) \div g + 1
    IN [i \in 1..cnt |-> first + (i - 1) * g]

\* a price as the string on the wire: ".50000000" follows the whole part in
\* the exchange's own format; a tiny price, and a leaping one between its
\* leaps, is "0.0000" and the digits
WirePrice(path, g, t) ==
    IF path = "decimal"
    THEN Digits(ClosePrice(path, g, t)) \o <<46, 53, 48, 48, 48, 48, 48, 48, 48>>
    ELSE IF path \in {"tiny", "leap"}
    THEN <<48, 46, 48, 48, 48, 48>> \o Digits(ClosePrice(path, g, t))
    ELSE Digits(ClosePrice(path, g, t))

\* "n/a"
NotAvailable == <<110, 47, 97>>

\* the close on the wire
WireClose(path, g, t) ==
    IF path = "garbled" /\ (t \div g) % 7 = 0 THEN NotAvailable
    ELSE IF path = "dip" /\ (t \div g) % 16 = 1 THEN <<45, 53>>
    ELSE IF path = "leap" /\ (t \div g) % 16 = 1
    THEN Digits(ClosePrice(path, g, t)) \o <<101, 51, 48, 49>>
    ELSE WirePrice(path, g, t)

\* the open on the wire
WireOpen(path, g, t) ==
    IF path = "badopen" /\ (t \div g) % 7 = 0 THEN NotAvailable
    ELSE WirePrice(path, g, t)

\* a candle as the klines endpoint sends it: a row of 12 fields, in the
\* order of `columns`.  The handler reads the open time (row[0], lines 68 and
\* 79), converts open, high, low and close (lines 80-81) and gives every
\* field a column (line 73).  A row always carries its open time, a number.
FullCandle(src, g, t) ==
    <<t, WireOpen(src.path, g, t), WirePrice(src.path, g, t), WirePrice(src.path, g, t),
      WireClose(src.path, g, t), <<49>>, t + g - 1, <<49>>, 1, <<48>>, <<48>>, <<48>>>>

Candle(src, g, t) ==
    IF src.path = "short" THEN SubSeq(FullCandle(src, g, t), 1, 11)
    ELSE IF src.path = "ragged" /\ (t \div g) % 32 = 1 THEN SubSeq(FullCandle(src, g, t), 1, 4)
    ELSE FullCandle(src, g, t)

\* row[0]
OpenTime(row) == row[1]

\* the page the exchange sends for params when it selects candles from `from`
\* on; it sends at most src.cap candles, and never more than params.limit
KlinesPage(src, params, from) ==
    LET g == IntervalMs(params.interval)
        ts == HeldTimes(src, g, from, params.endTime)
        k == Min2(Min2(src.cap, params.limit), Len(ts))
    IN [i \in 1..k |-> Candle(src, g, ts[i])]

(***************************************************************************)
(* get_volatility: the pagination loop                                     *)
(***************************************************************************)
\* str.upper() on ASCII
Upper(s) == [i \in DOMAIN s |-> IF s[i] >= 97 /\ s[i] <= 122 THEN s[i] - 32 ELSE s[i]]

\* the zone's UTC offset at instant u, relative to the offset before the
\* transition
OffsetAt(z, u) ==
    IF z.kind = "fixed" \/ u < z.at THEN 0
    ELSE IF z.kind = "forward" THEN MsPerHour ELSE 0 - MsPerHour

\* line 43: datetime.now(), a naive local datetime.  fold = 1 marks the
\* second pass through the hour that is repeated after the clocks went back.
LocalNow(z, u) ==
    [wall |-> u + OffsetAt(z, u),
     fold |-> IF z.kind = "back" /\ u >= z.at /\ u < z.at + MsPerHour THEN 1 ELSE 0]

\* line 44: datetime - timedelta(hours = h); the result has fold 0
MinusHours(d, h) == [wall |-> d.wall - h * MsPerHour, fold |-> 0]

\* lines 46-47: int(d.timestamp() * 1000) of a naive datetime, read as
\* local time.  A reading that occurs twice is resolved by fold; a reading
\* that the transition skipped takes the offset before it when fold = 0.
TimestampMs(z, d) ==
    IF z.kind = "fixed" THEN d.wall
    ELSE LET before == d.wall
             after == d.wall - (IF z.kind = "forward" THEN MsPerHour ELSE 0 - MsPerHour)
             okBefore == before < z.at
             okAfter == after >= z.at
         IN IF okBefore /\ ~okAfter THEN before
            ELSE IF okAfter /\ ~okBefore THEN after
            ELSE IF d.fold = 0 THEN before ELSE after

\* lines 43, 47
EndMs(z, now_ms) == TimestampMs(z, LocalNow(z, now_ms))

\* lines 43-46
StartMs(z, now_ms, hours) == TimestampMs(z, MinusHours(LocalNow(z, now_ms), hours))

\* line 53
LoopGuard(cur, end) == cur < end

\* variant of Params: the symbol is sent as given
ParamsAsGiven(sym, iv, cur, end) ==
    [symbol |-> sym, interval |-> iv, startTime |-> cur,
     endTime |-> end, limit |-> limit]

\* lines 54-60
Params(sym, iv, cur, end) ==
    [symbol |-> Upper(sym), interval |-> iv, startTime |-> cur,
     endTime |-> end, limit |-> limit]

\* variant of NextStart: the next page starts at the last candle received
NextStartAtLast(data) == OpenTime(data[Len(data)])

\* variant of NextStart: the next page starts one millisecond after it
NextStartPlusOne(data) == OpenTime(data[Len(data)]) + 1

\* line 68
NextStart(data) == OpenTime(Last(data)) + step_ms

VARIABLES symbol, interval, lookback_hours, source, zone,
          pc, start_ms, end_ms, current_start_ms, all_data,
          requests, pages, failedAt, staleCount,
          df, status, detail, resp

vars == <<symbol, interval, lookback_hours, source, zone,
          pc, start_ms, end_ms, current_start_ms, all_data,
          requests, pages, failedAt, staleCount,
          df, status, detail, resp>>


(***************************************************************************)
(* Floats, and the numeric functions the estimator uses                    *)
(***************************************************************************)
\* computed values: NaN, an infinity, the finite value v * 10^e
NaN == [nan |-> TRUE, inf |-> 0, v |-> 0, e |-> 0]
\* inf for sign = 1, -inf for sign = -1
Inf(sign) == [nan |-> FALSE, inf |-> sign, v |-> 0, e |-> 0]
Num(v, e) == [nan |-> FALSE, inf |-> 0, v |-> v, e |-> e]
\* 0.0
Zero == Num(0, 0)
\* prices: float('nan'), float('inf') or float('-inf'), 0.0 or -0.0, and
\* the finite float sign * m * 2^q, m a whole number in limbs
FNaN == [nan |-> TRUE, inf |-> 0, sign |-> 1, m |-> <<>>, q |-> 0]
FInf(sign) == [nan |-> FALSE, inf |-> sign, sign |-> sign, m |-> <<>>, q |-> 0]
FZero(sign) == [nan |-> FALSE, inf |-> 0, sign |-> sign, m |-> <<>>, q |-> 0]
Float(sign, m, q) == [nan |-> FALSE, inf |-> 0, sign |-> sign, m |-> m, q |-> q]
IsFinite(x) == ~x.nan /\ x.inf = 0
\* a price that is 0.0 or -0.0
IsZero(x) == IsFinite(x) /\ x.m = <<>>
Sign(n) == IF n < 0 THEN 0 - 1 ELSE 1

\* fixed-point units per 1.0 in a log return
Scale == Pow10(ScaleDigits)

IsDigit(c) == c \in 48..57
\* Py_ISSPACE: tab, newline, vertical tab, form feed, return, space
IsSpace(c) == c \in {9, 10, 11, 12, 13, 32}
ToLower(c) == IF c \in 65..90 THEN c + 32 ELSE c

\* the least and the greatest member of a set of integers that is not empty
SetMin(S) == CHOOSE i \in S : \A j \in S : i <= j
SetMax(S) == CHOOSE i \in S : \A j \in S : i >= j

\* str.strip(): from the first to the last character that is not white space
Strip(s) ==
    LET I == {i \in DOMAIN s : ~IsSpace(s[i])}
    IN IF I = {} THEN <<>> ELSE SubSeq(s, SetMin(I), SetMax(I))

\* the number a string of digits writes
RECURSIVE DigitsValue(_)
DigitsValue(ds) ==
    IF ds = <<>> THEN 0
    ELSE 10 * DigitsValue(SubSeq(ds, 1, Len(ds) - 1)) + (Last(ds) - 48)

\* how many zeros ds begins with
LeadingZeros(ds) == Cardinality({i \in DOMAIN ds : \A j \in 1..i : ds[j] = 48})

\* the exponent a string of digits writes; beyond six digits every exponent
\* is out of the range of a float alike
ExpValue(es) ==
    LET sig == SubSeq(es, LeadingZeros(es) + 1, Len(es))
    IN IF Len(sig) > 6 THEN 999999 ELSE DigitsValue(sig)

\* Whole numbers of any size.  A whole number is the sequence of its limbs,
\* its digits to the base 2^15, the least significant first and the last
\* one not 0; 0 is <<>>.
\* 2^k at k + 1 for k in 0..LimbBits, and 5^k at k + 1 for k in 0..6
PowersOf2 ==
    <<1, 2, 4, 8, 16, 32, 64, 128, 256, 512, 1024, 2048, 4096, 8192, 16384, 32768>>
PowersOf5 == <<1, 5, 25, 125, 625, 3125, 15625>>

\* the i-th limb of a, 0 beyond its last
Limb(a, i) == IF i >= 1 /\ i <= Len(a) THEN a[i] ELSE 0

\* xs without the zeros it ends with
Trim(xs) ==
    SubSeq(xs, 1,
           Len(xs) - Cardinality({i \in DOMAIN xs : \A j \in i..Len(xs) : xs[j] = 0}))

\* s without its last element, and s from its last element to its first
Front(s) == SubSeq(s, 1, Len(s) - 1)
Reverse(s) == [i \in 1..Len(s) |-> s[Len(s) - i + 1]]

\* the limbs xs[lo..hi], each 0 or more, with the carry c added to the
\* first and the carries taken from limb to limb: the limbs \o <<the carry
\* out of the last>>.  The range is halved, the carry out of the lower half
\* going into the upper.
RECURSIVE Carried(_, _, _, _)
Carried(xs, lo, hi, c) ==
    IF lo = hi THEN <<(xs[lo] + c) % Base, (xs[lo] + c) \div Base>>
    ELSE LET low == Carried(xs, lo, (lo + hi) \div 2, c)
         IN Front(low) \o Carried(xs, (lo + hi) \div 2 + 1, hi, Last(low))

\* a * k + c for a whole number a and 0 < k < Base, 0 <= c < Base
TimesPlus(a, k, c) ==
    IF a = <<>> THEN (IF c = 0 THEN <<>> ELSE <<c>>)
    ELSE IF k = 1 /\ c = 0 THEN a
    ELSE Trim(Carried([i \in DOMAIN a |-> a[i] * k], 1, Len(a), c))

\* a + b
Plus(a, b) ==
    IF a = <<>> THEN b
    ELSE IF b = <<>> THEN a
    ELSE Trim(Carried([i \in 1..Max2(Len(a), Len(b)) |-> Limb(a, i) + Limb(b, i)],
                      1, Max2(Len(a), Len(b)), 0))

\* a * 5^k, six powers at a time, k halved
RECURSIVE TimesPow5(_, _)
TimesPow5(a, k) ==
    IF k <= 6 THEN TimesPlus(a, PowersOf5[k + 1], 0)
    ELSE LET half == TimesPow5(a, k \div 2)
         IN IF half = <<>> THEN <<>> ELSE TimesPow5(half, k - k \div 2)

\* a * 2^s and floor(a / 2^s)
ShiftLeft(a, s) ==
    LET p == PowersOf2[(s % LimbBits) + 1]
        top == (Last(a) * p) \div Base
    IN IF a = <<>> THEN <<>>
       ELSE [i \in 1..(s \div LimbBits) |-> 0]
            \o [i \in DOMAIN a |-> ((a[i] * p) % Base) + ((Limb(a, i - 1) * p) \div Base)]
            \o (IF top = 0 THEN <<>> ELSE <<top>>)
ShiftRight(a, s) ==
    LET w == s \div LimbBits
        p == PowersOf2[(s % LimbBits) + 1]
    IN IF Len(a) <= w THEN <<>>
       ELSE Trim([i \in 1..(Len(a) - w) |->
                     (a[i + w] \div p) + (Limb(a, i + w + 1) % p) * (Base \div p)])

\* the bit of a that counts 2^k
BitAt(a, k) == (Limb(a, k \div LimbBits + 1) \div PowersOf2[(k % LimbBits) + 1]) % 2
\* how many bits a is written with: the least n with a < 2^n; those of its
\* last limb t are found by bisection
BitLen(a) ==
    LET t == Last(a)
    IN IF a = <<>> THEN 0
       ELSE LimbBits * (Len(a) - 1)
            + (IF t < 128
               THEN (IF t < 8 THEN (IF t < 2 THEN 1 ELSE IF t < 4 THEN 2 ELSE 3)
                     ELSE IF t < 32 THEN (IF t < 16 THEN 4 ELSE 5)
                     ELSE IF t < 64 THEN 6 ELSE 7)
               ELSE IF t < 2048
               THEN (IF t < 512 THEN (IF t < 256 THEN 8 ELSE 9)
                     ELSE IF t < 1024 THEN 10 ELSE 11)
               ELSE IF t < 8192 THEN (IF t < 4096 THEN 12 ELSE 13)
               ELSE IF t < 16384 THEN 14 ELSE 15)

\* a <= b
WholeLe(a, b) ==
    LET D == {i \in DOMAIN a : a[i] # Limb(b, i)}
    IN \/ Len(a) < Len(b)
       \/ Len(a) = Len(b) /\ (D = {} \/ a[SetMax(D)] < b[SetMax(D)])

\* the limbs lo..hi of a - b, c borrowed from the first: the limbs \o
\* <<what is borrowed from the limb after the last>>; the range is halved
RECURSIVE Borrowed(_, _, _, _, _)
Borrowed(a, b, lo, hi, c) ==
    IF lo = hi
    THEN <<(a[lo] - Limb(b, lo) - c + Base) % Base,
           IF a[lo] - Limb(b, lo) - c < 0 THEN 1 ELSE 0>>
    ELSE LET low == Borrowed(a, b, lo, (lo + hi) \div 2, c)
         IN Front(low) \o Borrowed(a, b, (lo + hi) \div 2 + 1, hi, Last(low))

\* the whole number a string of digits writes: up to nine digits at once,
\* more in two halves
RECURSIVE WholeOf(_)
WholeOf(ds) ==
    IF Len(ds) <= 9
    THEN Trim(<<DigitsValue(ds) % Base, (DigitsValue(ds) \div Base) % Base,
                DigitsValue(ds) \div (Base * Base)>>)
    ELSE Plus(ShiftLeft(TimesPow5(WholeOf(SubSeq(ds, 1, Len(ds) - Len(ds) \div 2)),
                                  Len(ds) \div 2),
                        Len(ds) \div 2),
              WholeOf(SubSeq(ds, Len(ds) - Len(ds) \div 2 + 1, Len(ds))))

\* A quotient that is cut is <<st>> \o w: w the limbs of its whole part,
\* st = 1 when a remainder was left and 0 when none was.
\* Division of the limbs a[lo..hi] by d < Base / 2, the limbs above having
\* left the remainder r: the limbs of the quotient, the most significant
\* first, \o <<the remainder>>.  The range is halved, the remainder of the
\* upper half going into the lower.
RECURSIVE ShortDiv(_, _, _, _, _)
ShortDiv(a, d, lo, hi, r) ==
    IF lo = hi THEN <<(r * Base + a[lo]) \div d, (r * Base + a[lo]) % d>>
    ELSE LET high == ShortDiv(a, d, (lo + hi) \div 2 + 1, hi, r)
         IN Front(high) \o ShortDiv(a, d, lo, (lo + hi) \div 2, Last(high))

\* the cut quotient x divided by 5^k, six powers at a time, k halved
RECURSIVE CutDivPow5(_, _)
CutDivPow5(x, k) ==
    IF Len(x) = 1 THEN x
    ELSE IF k <= 6
    THEN LET r == ShortDiv(x, PowersOf5[k + 1], 2, Len(x), 0)
         IN <<IF x[1] = 1 \/ Last(r) # 0 THEN 1 ELSE 0>> \o Trim(Reverse(Front(r)))
    ELSE CutDivPow5(CutDivPow5(x, k \div 2), k - k \div 2)

\* the bits of floor(r / d) that count from 2^lo to 2^hi, for d > 0 and
\* r < d * 2^(hi + 1), by long division: the bits, the most significant
\* first, \o <<the remainder>>.  The range is halved, the remainder of the
\* upper half going into the lower.
RECURSIVE DivBits(_, _, _, _)
DivBits(r, d, lo, hi) ==
    IF lo = hi
    THEN (IF WholeLe(ShiftLeft(d, lo), r)
          THEN <<1, Trim(Front(Borrowed(r, ShiftLeft(d, lo), 1, Len(r), 0)))>>
          ELSE <<0, r>>)
    ELSE LET high == DivBits(r, d, (lo + hi) \div 2 + 1, hi)
         IN Front(high) \o DivBits(Last(high), d, lo, (lo + hi) \div 2)

\* the limb the bits bs[o + 1 .. o + LimbBits] write, from bit j on
RECURSIVE LimbOfBits(_, _, _)
LimbOfBits(bs, o, j) ==
    IF j >= LimbBits \/ o + j + 1 > Len(bs) THEN 0
    ELSE bs[o + j + 1] * PowersOf2[j + 1] + LimbOfBits(bs, o, j + 1)

\* the float nearest to sign * (w + f) * 2^e, w a whole number and f = 0
\* when st = 0, 0 < f < 1 when st = 1 (then w >= 2^54): w is cut to
\* MantissaBits bits, or to the bits that count 2^MinBinExp and more, and
\* rounded to nearest, to even when halfway; a mantissa is kept with
\* MantissaBits bits wherever the exponent allows it (q >= MinBinExp).
Rounded(sign, w, st, e) ==
    LET len == BitLen(w)
        sh == Max2(len - MantissaBits, MinBinExp - e)
        up == /\ BitAt(w, sh - 1) = 1
              /\ \/ st # 0
                 \/ \E k \in 0..(sh - 2) : BitAt(w, k) = 1
                 \/ BitAt(w, sh) = 1
        fill == Min2(MantissaBits - len, e - MinBinExp)
        m == IF sh <= 0 THEN ShiftLeft(w, fill)
             ELSE TimesPlus(ShiftRight(w, sh), 1, IF up THEN 1 ELSE 0)
        q == IF sh <= 0 THEN e - fill ELSE e + sh
        bits == BitLen(m)
    IN IF m = <<>> THEN FZero(sign)
       ELSE IF bits + q > MaxBinExp THEN FInf(sign)
       ELSE IF bits > MantissaBits THEN Float(sign, ShiftRight(m, 1), q + 1)
       ELSE Float(sign, m, q)

\* a / b of two floats, as numpy divides.  Of two finite floats that are
\* not 0 the quotient is rounded once: that of the mantissas is taken with
\* 56 or 57 bits (x, the most significant first, the least in bs) and its
\* remainder.
Quotient(a, b) ==
    LET s == 56 + BitLen(b.m) - BitLen(a.m)
        x == DivBits(ShiftLeft(a.m, s), b.m, 0, 56)
        bs == Reverse(Front(x))
        w == Trim([i \in 1..((Len(bs) + LimbBits - 1) \div LimbBits) |->
                      LimbOfBits(bs, LimbBits * (i - 1), 0)])
    IN IF a.nan \/ b.nan THEN FNaN
       ELSE IF a.inf # 0 /\ b.inf # 0 THEN FNaN
       ELSE IF a.inf # 0 THEN FInf(a.sign * b.sign)
       ELSE IF b.inf # 0 THEN FZero(a.sign * b.sign)
       ELSE IF IsZero(b) THEN (IF IsZero(a) THEN FNaN ELSE FInf(a.sign * b.sign))
       ELSE IF IsZero(a) THEN FZero(a.sign * b.sign)
       ELSE Rounded(a.sign * b.sign, w, IF Last(x) = <<>> THEN 0 ELSE 1,
                    a.q - b.q - s)

\* a <= b for two finite computed values
Le(a, b) ==
    IF a.e = b.e \/ a.v = 0 \/ b.v = 0 \/ Sign(a.v) # Sign(b.v) THEN a.v <= b.v
    ELSE IF a.e < b.e
    THEN (IF b.e - a.e > 9 THEN b.v > 0
          ELSE 0 - ((0 - a.v) \div Pow10(b.e - a.e)) <= b.v)
    ELSE (IF a.e - b.e > 9 THEN a.v < 0
          ELSE a.v <= b.v \div Pow10(a.e - b.e))

\* floor of the square root, by bisection on [lo, hi]
RECURSIVE IsqrtIn(_, _, _)
IsqrtIn(n, lo, hi) ==
    IF lo >= hi THEN lo
    ELSE LET mid == (lo + hi + 1) \div 2
         IN IF mid * mid <= n THEN IsqrtIn(n, mid, hi) ELSE IsqrtIn(n, lo, mid - 1)
Isqrt(n) == IsqrtIn(n, 0, Min2(n, 46340))

\* np.sqrt(n) in thousandths
SqrtMilli(n) == Isqrt(n * 1000000)

\* floor(x * m / d) for x >= 0, taken in two parts
MulDiv(x, m, d) == (x \div d) * m + ((x % d) * m) \div d

\* floor(n * 10^s / d) for n >= 0 and d > 0, one decimal digit at a time
RECURSIVE LongDiv(_, _, _)
LongDiv(n, d, s) ==
    IF s = 0 THEN n \div d
    ELSE (n \div d) * Pow10(s) + LongDiv((n % d) * 10, d, s - 1)

\* x * y / 10^8 for x, y in 0..10^8, each taken in two halves of four digits
MulFine(x, y) ==
    (x \div 10000) * (y \div 10000)
    + ((x \div 10000) * (y % 10000) + (x % 10000) * (y \div 10000)) \div 10000
    + ((x % 10000) * (y % 10000)) \div 100000000

\* p / k + p * z2 / (k + 2) + p * z2^2 / (k + 4) + ... in units of 10^-8,
\* to the first term that vanishes
RECURSIVE AtanhSeries(_, _, _)
AtanhSeries(p, z2, k) ==
    IF p = 0 THEN 0 ELSE p \div k + AtanhSeries(MulFine(p, z2), z2, k + 2)

\* ln(a / b) for a >= b > 0 with two more decimals than Scale has:
\* 2 * atanh((a - b) / (a + b))
LnPos(a, b) ==
    LET z == LongDiv(a - b, a + b, ScaleDigits + 2)
    IN 2 * AtanhSeries(z, MulFine(z, z), 1)

\* k * ln(2) + f / 100 at Scale, rounded; ln(2) = 0.69314718056
PlusTimesLn2(f, k) == k * 693147 + (f + (k * 18056) \div 1000 + 50) \div 100
\* sqrt(2) in 1/10000
SqrtTwo == Isqrt(2 * 10000 * 10000)

\* the first LogBits bits of a whole number m that is not 0, as a number in
\* 2^(LogBits - 1) .. 2^LogBits - 1
Lead(m) ==
    LET len == BitLen(m)
        t == IF len >= LogBits THEN ShiftRight(m, len - LogBits)
             ELSE ShiftLeft(m, LogBits - len)
    IN Limb(t, 1) + Base * Limb(t, 2)

\* ln(|a| / |b|) at Scale for two finite floats that are not 0, from the
\* first LogBits bits of their mantissas: the quotient of these is brought
\* between 1/sqrt(2) and sqrt(2) first; k is the difference of the binary
\* exponents (that of a is the least n with |a| < 2^n)
LnQuotient(a, b) ==
    LET x == Lead(a.m)
        y == Lead(b.m)
        k == (BitLen(a.m) + a.q) - (BitLen(b.m) + b.q)
    IN IF (x \div 8192) * 10000 > SqrtTwo * (y \div 8192)
       THEN PlusTimesLn2(0 - LnPos(2 * y, x), k + 1)
       ELSE IF (y \div 8192) * 10000 > SqrtTwo * (x \div 8192)
       THEN PlusTimesLn2(LnPos(2 * x, y), k - 1)
       ELSE IF x >= y THEN PlusTimesLn2(LnPos(x, y), k)
       ELSE PlusTimesLn2(0 - LnPos(y, x), k)

\* np.log(a / b) of two floats.  The quotient x is rounded as a float is
\* (to an infinity, to a zero, to a multiple of 2^MinBinExp).  That of two
\* finite floats that are not 0 lies between 2^(k - 1) and 2^(k + 1), k the
\* difference of their binary exponents: when these are within
\* 2^(MinBinExp + MantissaBits - 1) and 2^(MaxBinExp - 1) it is a normal
\* float, its rounding is beyond the decimals kept of the logarithm, and
\* the logarithm is taken from a and b.  Otherwise it is np.log(x):
\* log(inf) is inf, log(0) and log(-0.0) are -inf, a negative number has
\* no logarithm (NaN), and else it is ln(x / 1.0).
LogQuotient(a, b) ==
    LET k == (BitLen(a.m) + a.q) - (BitLen(b.m) + b.q)
        x == Quotient(a, b)
    IN IF /\ IsFinite(a) /\ IsFinite(b) /\ ~IsZero(a) /\ ~IsZero(b)
          /\ k - 1 >= MinBinExp + MantissaBits - 1
          /\ k + 1 <= MaxBinExp - 1
       THEN (IF a.sign # b.sign THEN NaN ELSE Num(LnQuotient(a, b), 0 - ScaleDigits))
       ELSE IF x.nan THEN NaN
       ELSE IF x.inf # 0 THEN (IF x.inf > 0 THEN Inf(1) ELSE NaN)
       ELSE IF IsZero(x) THEN Inf(0 - 1)
       ELSE IF x.sign < 0 THEN NaN
       ELSE Num(LnQuotient(x, Float(1, ShiftLeft(<<1>>, MantissaBits - 1),
                                    1 - MantissaBits)),
                0 - ScaleDigits)

\* an underscore is accepted between two digits only
UnderscoresOk(t) ==
    \A i \in DOMAIN t :
        t[i] = 95 => /\ i > 1
                     /\ i < Len(t)
                     /\ IsDigit(t[i - 1])
                     /\ IsDigit(t[i + 1])

\* the grammar of a number's text: [sign] mantissa [e or E, [sign], digits],
\* the mantissa being digits with at most one point among or beside them
Signed(s) == s # <<>> /\ s[1] \in {43, 45}
Unsigned(s) == IF Signed(s) THEN Tail(s) ELSE s
SignIn(s) == IF Signed(s) /\ s[1] = 45 THEN 0 - 1 ELSE 1
\* where the exponent is marked in u, Len(u) + 1 when nowhere
ExpMark(u) ==
    LET I == {i \in DOMAIN u : u[i] \in {69, 101}}
    IN IF I = {} THEN Len(u) + 1 ELSE SetMin(I)
Mantissa(s) == SubSeq(Unsigned(s), 1, ExpMark(Unsigned(s)) - 1)
HasExponent(s) == ExpMark(Unsigned(s)) <= Len(Unsigned(s))
Exponent(s) == SubSeq(Unsigned(s), ExpMark(Unsigned(s)) + 1, Len(Unsigned(s)))
MantissaOk(m) ==
    /\ \A i \in DOMAIN m : IsDigit(m[i]) \/ m[i] = 46
    /\ Cardinality({i \in DOMAIN m : m[i] = 46}) <= 1
    /\ \E i \in DOMAIN m : IsDigit(m[i])
ExponentOk(x) ==
    /\ Unsigned(x) # <<>>
    /\ \A i \in DOMAIN Unsigned(x) : IsDigit(Unsigned(x)[i])
\* how many digits of the mantissa stand before its point
DigitsBeforePoint(m) ==
    LET I == {i \in DOMAIN m : m[i] = 46}
    IN IF I = {} THEN Len(m) ELSE SetMin(I) - 1

\* a number's text read: whether it is one (ok), the sign, the digits of
\* the mantissa (ds), how many of them stand before the point (n1), and
\* the exponent's sign and digits
Scan(s) ==
    [ok |-> MantissaOk(Mantissa(s)) /\ (HasExponent(s) => ExponentOk(Exponent(s))),
     sign |-> SignIn(s),
     ds |-> SelectSeq(Mantissa(s), IsDigit),
     n1 |-> DigitsBeforePoint(Mantissa(s)),
     esign |-> SignIn(Exponent(s)),
     es |-> Unsigned(Exponent(s))]

Accepted(val) == [ok |-> TRUE, val |-> val]
Refused == [ok |-> FALSE, val |-> FNaN]

\* the float nearest to sign * d * 10^e10 for a string of digits ds that
\* writes the whole number d > 0.  d * 10^e10 is d * 5^e10 * 2^e10; for
\* e10 < 0 the quotient d * 2^s / 5^-e10 is cut where at least 56 bits of it
\* are had, s being the bits of 5^-e10 (no more than 2.322 for each power)
\* and 56 over those of d.
NearestFloat(sign, ds, e10) ==
    LET d == WholeOf(ds)
        s == Max2(0, ((0 - e10) * 2322) \div 1000 + 57 - BitLen(d))
        x == CutDivPow5(<<0>> \o ShiftLeft(d, s), 0 - e10)
    IN IF e10 >= 0 THEN Rounded(sign, TimesPow5(d, e10), 0, e10)
       ELSE Rounded(sign, Tail(x), x[1], e10 - s)

\* the float a number's text writes, correctly rounded, with the sign
\* written.  With significant digits sig (the first one not 0) the number is
\* d.ddd * 10^ex: 10^(MaxDecExp + 1) and more is beyond every float, less
\* than 10^MinDecExp is below half of the least one.  The digits read (ds)
\* are sig without the zeros it ends with (cut), and of more than MaxSig
\* digits the first MaxSig and a 1 for the rest, which no float and no
\* middle of two floats has.
NumberOf(a) ==
    LET zeros == LeadingZeros(a.ds)
        sig == SubSeq(a.ds, zeros + 1, Len(a.ds))
        ex == a.n1 + a.esign * ExpValue(a.es) - zeros - 1
        cut == SubSeq(sig, 1, SetMax({i \in DOMAIN sig : sig[i] # 48}))
        ds == IF Len(cut) <= MaxSig THEN cut ELSE Append(SubSeq(cut, 1, MaxSig), 49)
    IN IF ~a.ok THEN Refused
       ELSE IF sig = <<>> THEN Accepted(FZero(a.sign))
       ELSE IF ex > MaxDecExp THEN Accepted(FInf(a.sign))
       ELSE IF ex < MinDecExp THEN Accepted(FZero(a.sign))
       ELSE Accepted(NearestFloat(a.sign, ds, ex - (Len(ds) - 1)))

\* "inf", "infinity" and "nan", in any case, after an optional sign
WordOf(s) ==
    LET word == [i \in DOMAIN Unsigned(s) |-> ToLower(Unsigned(s)[i])]
    IN IF word = <<105, 110, 102>> \/ word = <<105, 110, 102, 105, 110, 105, 116, 121>>
       THEN Accepted(FInf(SignIn(s)))
       ELSE IF word = <<110, 97, 110>> THEN Accepted(FNaN)
       ELSE Refused

\* float(text), as line 81 applies it to every string of a column:
\* [ok |-> the string is accepted, val |-> the float].  White space around
\* the number is dropped and the underscores between digits are taken out.
ParseFloat(text) ==
    LET t == Strip(text)
        s == SelectSeq(t, LAMBDA c : c # 95)
    IN IF ~UnderscoresOk(t) THEN Refused
       ELSE IF WordOf(s).ok THEN WordOf(s)
       ELSE NumberOf(Scan(s))

\* the values of a column that are not NaN (pandas' skipna)
Valid(xs) == SelectSeq(xs, LAMBDA x : ~x.nan)

\* Rolling._prep_values: an infinity is taken as NaN
InfToNaN(xs) == [i \in DOMAIN xs |-> IF xs[i].inf # 0 THEN NaN ELSE xs[i]]

\* the least and the greatest of xs[lo..hi], by halving
RECURSIVE MinV(_, _, _)
MinV(xs, lo, hi) ==
    IF lo = hi THEN xs[lo].v
    ELSE LET mid == (lo + hi) \div 2
         IN Min2(MinV(xs, lo, mid), MinV(xs, mid + 1, hi))
RECURSIVE MaxV(_, _, _)
MaxV(xs, lo, hi) ==
    IF lo = hi THEN xs[lo].v
    ELSE LET mid == (lo + hi) \div 2
         IN Max2(MaxV(xs, lo, mid), MaxV(xs, mid + 1, hi))

\* the unit the deviations are counted in: 1 when the spread of the values
\* (half of it is w) is within top units, else the least unit in which it is
StepFor(w, top) == IF w < top \div 2 THEN 1 ELSE 1 + w \div (top \div 2)

\* sum of xs[i] / k - base / k over lo..hi, by halving
RECURSIVE SumV(_, _, _, _, _)
SumV(xs, base, k, lo, hi) ==
    IF lo > hi THEN 0
    ELSE IF lo = hi THEN xs[lo].v \div k - base \div k
    ELSE LET mid == (lo + hi) \div 2
         IN SumV(xs, base, k, lo, mid) + SumV(xs, base, k, mid + 1, hi)

\* sum of (xs[i] / k - base / k - m)^2 over lo..hi, by halving
RECURSIVE SumSqDev(_, _, _, _, _, _)
SumSqDev(xs, base, k, m, lo, hi) ==
    IF lo > hi THEN 0
    ELSE IF lo = hi
    THEN (xs[lo].v \div k - base \div k - m) * (xs[lo].v \div k - base \div k - m)
    ELSE LET mid == (lo + hi) \div 2
         IN SumSqDev(xs, base, k, m, lo, mid) + SumSqDev(xs, base, k, m, mid + 1, hi)

\* the decimals the square root of q / d is taken with: as many as keep
\* q / d with twice that many decimals within the integers
RootDecimals(q, d) ==
    IF q \div d < 21 THEN 4
    ELSE IF q \div d < 2147 THEN 3
    ELSE IF q \div d < 214748 THEN 2
    ELSE IF q \div d < 21474836 THEN 1
    ELSE 0

\* Series.std(): sample standard deviation (ddof = 1) of the valid values,
\* NaN when fewer than two, and NaN when one of them is an infinity (its
\* deviation from the mean is inf - inf).  The values are log returns, at
\* Scale; their deviations are counted from the least of them, in units of
\* k / Scale, k = 1 unless the returns are spread so far that the squares
\* would leave the integers.  The sum of squares about the whole part m of
\* the mean is brought to the mean by rem^2 / n.  A deviation below 20 is
\* given with up to two more decimals than the returns.
Std(xs) ==
    LET ys == Valid(xs)
        n == Len(ys)
    IN IF n < 2 THEN NaN
       ELSE IF \E i \in DOMAIN ys : ys[i].inf # 0 THEN NaN
       ELSE LET base == MinV(ys, 1, n)
                k == StepFor(MaxV(ys, 1, n) \div 2 - base \div 2,
                             Isqrt((32768 * 32768) \div n))
                sum == SumV(ys, base, k, 1, n)
                q == SumSqDev(ys, base, k, sum \div n, 1, n)
                         - ((sum % n) * (sum % n)) \div n
                s == RootDecimals(q, n - 1)
                root == Isqrt(LongDiv(q, n - 1, 2 * s))
                f == IF MulDiv(root, k, Pow10(s)) < 20 * Scale THEN Min2(s, 2) ELSE 0
            IN Num(MulDiv(root, k, Pow10(s - f)), 0 - ScaleDigits - f)

\* a float times np.sqrt(intervals_per_hour) times 10000: a standard
\* deviation becomes basis points with two decimals (with one decimal
\* beyond 2 * 10^7 bp)
ToBps(x) ==
    IF ~IsFinite(x) THEN x
    ELSE IF x.v <= 600 * Scale
    THEN Num(MulDiv(x.v, SqrtMilli(intervals_per_hour), Pow10(0 - x.e - 3)), 0 - 2)
    ELSE Num(MulDiv(x.v, SqrtMilli(intervals_per_hour), Pow10(0 - x.e - 2)), 0 - 1)

\* line 86: log(close / close.shift(1)); row 1 has no previous close
Returns(close) ==
    [i \in DOMAIN close |->
        IF i = 1 THEN NaN ELSE LogQuotient(close[i], close[i - 1])]

\* Series.rolling(w).std(): min_periods = w valid observations in rows i-w+1..i
RollingStd(xs, w) ==
    [i \in DOMAIN xs |->
        IF i < w THEN NaN
        ELSE LET win == InfToNaN(SubSeq(xs, i - w + 1, i))
             IN IF Len(Valid(win)) < w THEN NaN ELSE Std(win)]

\* lines 92-96
Vol1hBps(returns) ==
    LET r == RollingStd(returns, window_size)
    IN [i \in DOMAIN r |-> ToBps(r[i])]

\* Series.max() / Series.min(): NaN skipped, NaN when nothing is left
SeriesMax(xs) ==
    LET ys == Valid(xs)
    IN IF ys = <<>> THEN NaN
       ELSE ys[CHOOSE i \in DOMAIN ys : \A j \in DOMAIN ys : Le(ys[j], ys[i])]
SeriesMin(xs) ==
    LET ys == Valid(xs)
    IN IF ys = <<>> THEN NaN
       ELSE ys[CHOOSE i \in DOMAIN ys : \A j \in DOMAIN ys : Le(ys[i], ys[j])]

\* Series.fillna(0)
FillNa0(xs) == [i \in DOMAIN xs |-> IF xs[i].nan THEN Zero ELSE xs[i]]

\* line 105: .iloc[-1]
ILocLast(xs) == xs[Len(xs)]

\* line 106: Timestamp.isoformat(), as <<day, hour, minute, second, millisecond>>
IsoFormat(ms) ==
    <<ms \div (24 * MsPerHour), (ms \div MsPerHour) % 24, (ms \div 60000) % 60,
      (ms \div 1000) % 60, ms % 1000>>

(***************************************************************************)
(* get_volatility: the normalizer (lines 73-84)                            *)
(***************************************************************************)
\* the position of a named column in a row
ColumnIndex(name) == CHOOSE k \in DOMAIN columns : columns[k] = name

\* the number of columns of the rows: the longest row's
Width(data) ==
    CHOOSE n \in {Len(data[i]) : i \in DOMAIN data} :
        \A i \in DOMAIN data : Len(data[i]) <= n

\* lines 80-81 on one field: a field the row is too short for is None in
\* the frame and becomes NaN
AsFloat(row, name) ==
    IF ColumnIndex(name) > Len(row) THEN [ok |-> TRUE, val |-> FNaN]
    ELSE ParseFloat(row[ColumnIndex(name)])

\* line 73 raises unless the rows have as many columns as there are names
ColumnsFit(data) == Width(data) = Len(columns)

\* lines 80-81 on the rows: what float() makes of each field of the four
\* columns, beside the row's open time
Converted(data) ==
    [i \in DOMAIN data |->
        [timestamp |-> OpenTime(data[i]),
         open |-> AsFloat(data[i], "open"),
         high |-> AsFloat(data[i], "high"),
         low |-> AsFloat(data[i], "low"),
         close |-> AsFloat(data[i], "close")]]

\* lines 80-81 raise unless float() accepts every string of the four columns
AllFloats(conv) ==
    \A j \in DOMAIN FloatColumns : \A i \in DOMAIN conv : conv[i][FloatColumns[j]].ok

\* the string lines 80-81 stop at: the first row's of the first column that
\* has one float() refuses
FirstRefused(data, conv) ==
    LET bad(j) == {i \in DOMAIN conv : ~conv[i][FloatColumns[j]].ok}
        j == CHOOSE c \in DOMAIN FloatColumns :
                 bad(c) # {} /\ \A d \in 1..(c - 1) : bad(d) = {}
        i == CHOOSE r \in bad(j) : \A q \in bad(j) : r <= q
    IN data[i][ColumnIndex(FloatColumns[j])]

\* a row of the frame after lines 79-81, in the two columns that are read
\* from then on
Row(k) == [timestamp |-> k.timestamp, close |-> k.close.val]

\* how many of the first rows of s, sorted by timestamp, lie before
\* timestamp x (strict) or at or before it; found by bisection in lo..hi
RECURSIVE CountBefore(_, _, _, _, _)
CountBefore(s, x, strict, lo, hi) ==
    IF lo >= hi THEN lo
    ELSE LET mid == (lo + hi + 1) \div 2
             before == IF strict THEN s[mid].timestamp < x ELSE s[mid].timestamp <= x
         IN IF before THEN CountBefore(s, x, strict, mid, hi)
            ELSE CountBefore(s, x, strict, lo, mid - 1)

\* how many entries of the increasing pos are <= p; by bisection in lo..hi
RECURSIVE CountPlaced(_, _, _, _)
CountPlaced(pos, p, lo, hi) ==
    IF lo >= hi THEN lo
    ELSE LET mid == (lo + hi + 1) \div 2
         IN IF pos[mid] <= p THEN CountPlaced(pos, p, mid, hi)
            ELSE CountPlaced(pos, p, lo, mid - 1)

\* the merge of two sorted runs; among equal timestamps the rows of a come
\* first
Merge(a, b) ==
    LET posA == [i \in 1..Len(a) |->
                    i + CountBefore(b, a[i].timestamp, TRUE, 0, Len(b))]
    IN [p \in 1..(Len(a) + Len(b)) |->
            LET i == CountPlaced(posA, p, 0, Len(a))
            IN IF i >= 1 /\ posA[i] = p THEN a[i] ELSE b[p - i]]

\* ascending by timestamp, as a merge sort
RECURSIVE MergeSort(_)
MergeSort(rows) ==
    IF Len(rows) <= 1 THEN rows
    ELSE LET h == Len(rows) \div 2
         IN Merge(MergeSort(SubSeq(rows, 1, h)),
                  MergeSort(SubSeq(rows, h + 1, Len(rows))))

\* lines 83-84: ascending by timestamp; rows that are in order stay as they
\* are.  Rows with equal timestamps are copies of one candle in every run
\* of this model, so the order sort_values leaves them in does not show.
SortValues(rows) ==
    IF \A i \in 1..(Len(rows) - 1) : rows[i].timestamp <= rows[i + 1].timestamp
    THEN rows
    ELSE MergeSort(rows)

\* lines 73-96: the frame after the estimator's columns are added
Frame(conv) ==
    LET rows == SortValues([i \in DOMAIN conv |-> Row(conv[i])])
        close == [i \in DOMAIN rows |-> rows[i].close]
        returns == Returns(close)
    IN [timestamp |-> [i \in DOMAIN rows |-> rows[i].timestamp],
        close |-> close,
        returns |-> returns,
        vol_1h_bps |-> Vol1hBps(returns)]

EmptyFrame == [timestamp |-> <<>>, close |-> <<>>, returns |-> <<>>, vol_1h_bps |-> <<>>]

\* line 98
OverallVol(frame) == ToBps(Std(frame.returns))
\* line 103
MaxVol(frame) == SeriesMax(frame.vol_1h_bps)
\* variant of MinVol: the minimum is taken after the NaN rows are set to 0
MinVolFilled(frame) == SeriesMin(FillNa0(frame.vol_1h_bps))

\* line 104
MinVol(frame) == SeriesMin(frame.vol_1h_bps)
\* line 105
CurrentVol(frame) == ILocLast(frame.vol_1h_bps)
\* line 107
RollingVols(frame) == FillNa0(frame.vol_1h_bps)

\* lines 100-109
VolatilityResponse(sym, frame) ==
    [symbol |-> sym,
     average_vol |-> OverallVol(frame),
     max_vol |-> MaxVol(frame),
     min_vol |-> MinVol(frame),
     current_vol |-> CurrentVol(frame),
     timestamps |-> [i \in DOMAIN frame.timestamp |-> IsoFormat(frame.timestamp[i])],
     rolling_vols |-> RollingVols(frame),
     prices |-> frame.close]

\* an exception: its class, the status code it carries, its message and
\* what the message quotes
Exc(class, code, msg, arg) == [class |-> class, code |-> code, msg |-> msg, arg |-> arg]
NoException == Exc("none", 0, "", <<>>)

\* lines 22-30: one of the fields declared float is NaN or an infinity.
\* rolling_vols and prices are declared list: a NaN or an infinity among
\* their entries is rendered as null.
HasNaN(r) ==
    \/ ~IsFinite(r.average_vol)
    \/ ~IsFinite(r.max_vol)
    \/ ~IsFinite(r.min_vol)
    \/ ~IsFinite(r.current_vol)

\* line 36: the route renders what the handler returned as JSON, which
\* refuses NaN and the infinities in a float field (ValueError, outside the
\* handler's try block): the client gets 500 "Internal Server Error"
Render(r) ==
    IF HasNaN(r)
    THEN [status |-> 500,
          detail |-> [prefix |-> "Internal Server Error",
                      cause |-> Exc("ValueError", 0,
                                    "Out of range float values are not JSON compliant", <<>>)]]
    ELSE [status |-> 200, detail |-> [prefix |-> "", cause |-> NoException]]

NoResponse == [none |-> TRUE]
NoDetail == [prefix |-> "", cause |-> NoException]

(***************************************************************************)
(* get_volatility: exceptions (lines 70-71, 111-114)                       *)
(***************************************************************************)
\* what the outbound call can raise: requests' ConnectionError, or the
\* HTTPError of raise_for_status() with the exchange's status code
RequestFailures ==
    { Exc("ConnectionError", 0, "", <<>>),
      Exc("HTTPError", 429, "Client Error", <<>>) }

\* line 73: "12 columns passed, passed data had 11 columns"
ColumnsError(data) ==
    Exc("ValueError", 0, "columns passed, passed data had columns",
        <<Len(columns), Width(data)>>)

\* line 81: "could not convert string to float: 'n/a'"
NotANumber(data, conv) ==
    Exc("ValueError", 0, "could not convert string to float", FirstRefused(data, conv))

\* lines 73-81: what building the frame raises
FrameError(data, conv) ==
    IF ~ColumnsFit(data) THEN ColumnsError(data) ELSE NotANumber(data, conv)

\* line 71: "No data found for {symbol}"
NotFound(sym) == Exc("HTTPException", 404, "No data found for", sym)

\* isinstance(e, requests.exceptions.RequestException)
IsRequestException(e) == e.class \in {"RequestException", "ConnectionError", "HTTPError"}

\* variant of ExceptClauses: the exchange's status code is passed on
ExceptClausesUpstream(e) ==
    IF IsRequestException(e)
    THEN [status |-> IF e.code # 0 THEN e.code ELSE 500,
          detail |-> [prefix |-> "Error fetching data from Binance: ", cause |-> e]]
    ELSE [status |-> 500, detail |-> [prefix |-> "", cause |-> e]]

\* lines 111-114: the outcome of an exception raised inside the try block.
\* HTTPException derives from Exception, so the second clause takes it.
ExceptClauses(e) ==
    IF IsRequestException(e)
    THEN [status |-> 500, detail |-> [prefix |-> "Error fetching data from Binance: ", cause |-> e]]
    ELSE [status |-> 500, detail |-> [prefix |-> "", cause |-> e]]

(***************************************************************************)
(* The request as a state machine                                          *)
(***************************************************************************)
Init ==
    /\ symbol \in Symbols
    /\ interval \in Intervals
    /\ lookback_hours \in Lookbacks
    /\ source \in Sources
    /\ zone \in Zones
    /\ pc = "idle"
    /\ start_ms = 0
    /\ end_ms = 0
    /\ current_start_ms = 0
    /\ all_data = <<>>
    /\ requests = <<>>
    /\ pages = <<>>
    /\ failedAt = 0
    /\ staleCount = 0
    /\ df = EmptyFrame
    /\ status = 0
    /\ detail = NoDetail
    /\ resp = NoResponse

\* lines 43-51: the clock is read and the loop variables are set
Begin(now_ms) ==
    /\ pc = "idle"
    /\ end_ms' = EndMs(zone, now_ms)
    /\ start_ms' = StartMs(zone, now_ms, lookback_hours)
    /\ current_start_ms' = StartMs(zone, now_ms, lookback_hours)
    /\ all_data' = <<>>
    /\ pc' = "while"
    /\ UNCHANGED <<symbol, interval, lookback_hours, source, zone, requests, pages,
                   failedAt, staleCount, df, status, detail, resp>>

\* lines 53-62: the loop test; when it passes, the request is sent
LoopEnter ==
    /\ pc = "while"
    /\ LoopGuard(current_start_ms, end_ms)
    /\ Len(requests) < MaxRequests
    /\ requests' = Append(requests, Params(symbol, interval, current_start_ms, end_ms))
    /\ pc' = "request"
    /\ UNCHANGED <<symbol, interval, lookback_hours, source, zone, start_ms, end_ms,
                   current_start_ms, all_data, pages, failedAt, staleCount,
                   df, status, detail, resp>>

\* line 53: the loop test fails
LoopExit ==
    /\ pc = "while"
    /\ ~LoopGuard(current_start_ms, end_ms)
    /\ pc' = "after"
    /\ UNCHANGED <<symbol, interval, lookback_hours, source, zone, start_ms, end_ms,
                   current_start_ms, all_data, requests, pages, failedAt,
                   staleCount, df, status, detail, resp>>

\* lines 64-68 on a page that is not empty
Receive(data) ==
    /\ all_data' = all_data \o data
    /\ current_start_ms' = NextStart(data)
    /\ pages' = Append(pages, data)
    /\ pc' = "while"
    /\ UNCHANGED <<symbol, interval, lookback_hours, source, zone, start_ms, end_ms,
                   requests, failedAt, df, status, detail, resp>>

\* the exchange answers with the candles from startTime on
RespondPage ==
    /\ pc = "request"
    /\ LET data == KlinesPage(source, Last(requests), Last(requests).startTime)
       IN /\ data # <<>>
          /\ Receive(data)
    /\ UNCHANGED staleCount

\* the exchange ignores startTime and answers from the start of the range
\* (one of the first requests after the first, at most MaxStale times)
RespondStale ==
    /\ pc = "request"
    /\ staleCount < MaxStale
    /\ Len(requests) <= 1 + MaxStale
    /\ LET data == KlinesPage(source, Last(requests), start_ms)
       IN /\ data # <<>>
          /\ OpenTime(data[1]) < Last(requests).startTime
          /\ Receive(data)
    /\ staleCount' = staleCount + 1

\* lines 65-66: an empty page breaks the loop
RespondEmpty ==
    /\ pc = "request"
    /\ pages' = Append(pages, <<>>)
    /\ pc' = "after"
    /\ UNCHANGED <<symbol, interval, lookback_hours, source, zone, start_ms, end_ms,
                   current_start_ms, all_data, requests, failedAt, staleCount,
                   df, status, detail, resp>>

\* lines 62-63 raise; lines 111-112 end the request
RespondFail(e) ==
    /\ pc = "request"
    /\ failedAt' = Len(requests)
    /\ status' = ExceptClauses(e).status
    /\ detail' = ExceptClauses(e).detail
    /\ pc' = "done"
    /\ UNCHANGED <<symbol, interval, lookback_hours, source, zone, start_ms, end_ms,
                   current_start_ms, all_data, requests, pages, staleCount,
                   df, resp>>

\* lines 70-71, caught at lines 113-114
FinishEmpty ==
    /\ pc = "after"
    /\ all_data = <<>>
    /\ status' = ExceptClauses(NotFound(symbol)).status
    /\ detail' = ExceptClauses(NotFound(symbol)).detail
    /\ pc' = "done"
    /\ UNCHANGED <<symbol, interval, lookback_hours, source, zone, start_ms, end_ms,
                   current_start_ms, all_data, requests, pages, failedAt,
                   staleCount, df, resp>>

\* lines 73-81 raise: the rows do not have the 12 columns, or a string of
\* open, high, low or close is no float; caught at lines 113-114
FinishRaise(conv) ==
    /\ status' = ExceptClauses(FrameError(all_data, conv)).status
    /\ detail' = ExceptClauses(FrameError(all_data, conv)).detail
    /\ UNCHANGED <<df, resp>>

\* lines 73-109, and the rendering of the returned response (line 36)
FinishCompute(conv) ==
    \E frame \in {Frame(conv)} :
        \E r \in {VolatilityResponse(symbol, frame)} :
            /\ df' = frame
            /\ resp' = r
            /\ status' = Render(r).status
            /\ detail' = Render(r).detail

\* lines 73-114 on collected candles: the frame is built and the response
\* computed, unless building it raises
Finish ==
    /\ pc = "after"
    /\ all_data # <<>>
    /\ \E conv \in {Converted(all_data)} :
           IF ColumnsFit(all_data) /\ AllFloats(conv)
           THEN FinishCompute(conv)
           ELSE FinishRaise(conv)
    /\ pc' = "done"
    /\ UNCHANGED <<symbol, interval, lookback_hours, source, zone, start_ms, end_ms,
                   current_start_ms, all_data, requests, pages, failedAt,
                   staleCount>>

Next ==
    \/ \E now_ms \in NowsOf(zone) : Begin(now_ms)
    \/ LoopEnter
    \/ LoopExit
    \/ RespondPage
    \/ RespondStale
    \/ RespondEmpty
    \/ \E e \in RequestFailures : RespondFail(e)
    \/ FinishEmpty
    \/ Finish

Spec == Init /\ [][Next]_vars

(***************************************************************************)
(* Properties                                                              *)
(***************************************************************************)
\* the handler returned a VolatilityResponse
Returned == pc = "done" /\ resp # NoResponse

\* the response was delivered: a successful response
Done200 == pc = "done" /\ status = 200

\* the candles the exchange holds in the requested range
HeldInRange ==
    LET g == IntervalMs(interval)
        ts == HeldTimes(source, g, start_ms, end_ms)
    IN [i \in DOMAIN ts |-> Candle(source, g, ts[i])]

\* the first page carried every candle of the range, fewer than the page cap
FirstPageComplete ==
    /\ Len(pages) >= 1
    /\ pages[1] # <<>>
    /\ pages[1] = HeldInRange
    /\ Len(HeldInRange) < 1000

\* every page that is not empty ends at or after the startTime it was asked for
LastAtOrAfterStart ==
    \A k \in DOMAIN pages :
        pages[k] # <<>> => OpenTime(Last(pages[k])) >= requests[k].startTime

\* every page is ascending and inside [startTime, endTime] of its request
PagesInRange ==
    \A k \in DOMAIN pages :
        /\ \A i \in DOMAIN pages[k] :
              /\ OpenTime(pages[k][i]) >= requests[k].startTime
              /\ OpenTime(pages[k][i]) <= requests[k].endTime
        /\ \A i \in 1..(Len(pages[k]) - 1) :
              OpenTime(pages[k][i]) < OpenTime(pages[k][i + 1])

CeilDiv(a, b) == IF a <= 0 THEN 0 ELSE (a + b - 1) \div b

IsUpperOf(u, sym) ==
    /\ Len(u) = Len(sym)
    /\ \A i \in DOMAIN sym :
          u[i] = IF sym[i] \in 97..122 THEN sym[i] - 32 ELSE sym[i]

\* m is the largest / the smallest entry of xs at the rows in D
IsMaxAt(m, xs, D) == (\E i \in D : xs[i] = m) /\ (\A i \in D : Le(xs[i], m))
IsMinAt(m, xs, D) == (\E i \in D : xs[i] = m) /\ (\A i \in D : Le(m, xs[i]))

\* every close of the frame is a positive number
PositiveCloses ==
    \A j \in DOMAIN df.close :
        IsFinite(df.close[j]) /\ ~IsZero(df.close[j]) /\ df.close[j].sign > 0

\* C1: when pagination completes with no candle collected, the request ends
\* with status 404.
C1_EmptyResultIs404 ==
    (pc = "done" /\ failedAt = 0 /\ all_data = <<>>) => status = 404

\* C2: when an outbound request fails, on whichever page, the request has
\* ended with status 500, the failed request is the last one issued, and no
\* frame or response was built from the pages fetched before.
C2_FailureAborts ==
    failedAt # 0 =>
        /\ pc = "done"
        /\ status = 500
        /\ Len(requests) = failedAt
        /\ Len(pages) = failedAt - 1
        /\ resp = NoResponse
        /\ df = EmptyFrame

C2_Witness ==
    /\ failedAt >= 3
    /\ Len(all_data) >= 2
    /\ pc = "done"
    /\ detail.cause.class = "HTTPError"

\* C3: in a successful response current_vol is the last element of
\* rolling_vols; when the last rolling value is undefined (12 or fewer
\* candles) the response is successful with current_vol = 0.
C3_CurrentVolIsLastRollingVol ==
    /\ Done200 => resp.current_vol = Last(resp.rolling_vols)
    /\ (Returned /\ Last(df.vol_1h_bps).nan) =>
          (status = 200 /\ resp.current_vol = Zero)

\* C4 as claimed: in a successful response max_vol and min_vol are the
\* maximum and the minimum of the returned, zero-filled rolling_vols.
C4_MinMaxOfReturnedList ==
    Done200 =>
        /\ IsMaxAt(resp.max_vol, resp.rolling_vols, DOMAIN resp.rolling_vols)
        /\ IsMinAt(resp.min_vol, resp.rolling_vols, DOMAIN resp.rolling_vols)

\* C4 as amended: in every response the handler returns, max_vol and
\* min_vol are the maximum and the minimum of the defined rolling values
\* only: the undefined rows, row 0 always among them, are skipped and not
\* counted as the 0 they are rendered as; when no rolling value is defined,
\* max_vol and min_vol are NaN.
C4_MinMaxOfDefinedRows ==
    Returned =>
        LET D == {i \in DOMAIN df.vol_1h_bps : ~df.vol_1h_bps[i].nan}
        IN /\ 1 \notin D
           /\ D = {} => (resp.max_vol.nan /\ resp.min_vol.nan)
           /\ D # {} =>
                 /\ IsMaxAt(resp.max_vol, resp.rolling_vols, D)
                 /\ IsMinAt(resp.min_vol, resp.rolling_vols, D)

C4_Witness ==
    /\ Done200
    /\ Len(resp.rolling_vols) > 14
    /\ ~resp.min_vol.nan
    /\ resp.min_vol.v > 0
    /\ resp.max_vol.v > resp.min_vol.v
    /\ resp.rolling_vols[1] = Zero

\* C5: for the N candles, with positive closes, of a response the handler
\* returns, every row but the first has a return, the rolling volatility of
\* row i (counted from 0) is defined exactly when i >= 12, a defined value
\* is >= 0, and rows 0..11 are 0 in rolling_vols.
C5_RollingDefinedFromRow12 ==
    (Returned /\ PositiveCloses) =>
        \A i \in DOMAIN df.close :
            /\ df.returns[i].nan <=> (i = 1)
            /\ ~df.vol_1h_bps[i].nan <=> (i - 1 >= 12)
            /\ ~df.vol_1h_bps[i].nan => df.vol_1h_bps[i].v >= 0
            /\ ~df.vol_1h_bps[i].nan => resp.rolling_vols[i] = df.vol_1h_bps[i]
            /\ (i - 1 < 12) => resp.rolling_vols[i] = Zero

\* what the code does keep of C5: with positive closes, every row but the
\* first has a return, the rolling volatility of row i (counted from 0) is
\* defined exactly when i >= 12 and the 12 returns ending at row i are all
\* finite (a return is infinite when the quotient of two closes leaves the
\* range of a float), a defined value is >= 0 and is the row's entry of
\* rolling_vols, and every undefined row is 0 in rolling_vols.
RollingDefinedByFiniteWindow ==
    (Returned /\ PositiveCloses) =>
        \A i \in DOMAIN df.close :
            /\ df.returns[i].nan <=> (i = 1)
            /\ ~df.vol_1h_bps[i].nan <=>
                  /\ i - 1 >= 12
                  /\ \A j \in (i - 11)..i : IsFinite(df.returns[j])
            /\ ~df.vol_1h_bps[i].nan => df.vol_1h_bps[i].v >= 0
            /\ ~df.vol_1h_bps[i].nan => resp.rolling_vols[i] = df.vol_1h_bps[i]
            /\ df.vol_1h_bps[i].nan => resp.rolling_vols[i] = Zero

\* C6: every outbound request carries the upper-cased symbol, and a
\* successful response carries the symbol as it was given.
C6_SymbolCase ==
    /\ \A k \in DOMAIN requests : IsUpperOf(requests[k].symbol, symbol)
    /\ Done200 => resp.symbol = symbol

C6_Witness ==
    /\ Done200
    /\ Len(requests) >= 2
    /\ requests[2].symbol # symbol
    /\ resp.symbol = symbol

\* C7: after a page that is not empty the next request starts at the page's
\* last open_time plus the duration of the requested interval; endTime stays
\* end_ms and limit stays 1000.
C7_AdvanceByIntervalDuration ==
    \A k \in DOMAIN requests :
        /\ requests[k].endTime = end_ms
        /\ requests[k].limit = 1000
        /\ (k >= 2 /\ pages[k - 1] # <<>>) =>
              requests[k].startTime = OpenTime(Last(pages[k - 1])) + IntervalMs(interval)

\* C8 as claimed: when the first page carries every candle of the range,
\* fewer than 1000, exactly one request is issued.
C8_ShortPageEndsPagination ==
    FirstPageComplete => Len(requests) = 1

\* C8 as amended: when the first page carries every candle of the range,
\* fewer than 1000, the loop is left after exactly one request if and only
\* if that page's last open_time + 300000 >= end_ms; otherwise a second
\* request is issued, with startTime = that last open_time + 300000.
C8_OneRequestIffLastCandleNearEnd ==
    FirstPageComplete =>
        /\ pc \in {"after", "done"} =>
              (Len(requests) = 1 <=> OpenTime(Last(pages[1])) + 300000 >= end_ms)
        /\ Len(requests) >= 2 =>
              requests[2].startTime = OpenTime(Last(pages[1])) + 300000

C8_Witness ==
    /\ FirstPageComplete
    /\ Done200
    /\ Len(requests) = 1
    /\ Len(all_data) >= 24

\* C9: a request is outstanding only while current_start_ms < end_ms; the
\* loop is left without an exception only after an empty page or with
\* current_start_ms >= end_ms; when every non-empty page ends at or after
\* the startTime asked for, startTime strictly increases from request to
\* request and at most ceil((end_ms - start_ms) / 300000) requests are
\* issued; with lookback_hours <= 0 none is.
C9_LoopTerminates ==
    /\ pc = "request" => current_start_ms < end_ms
    /\ pc = "after" =>
          \/ current_start_ms >= end_ms
          \/ (pages # <<>> /\ Last(pages) = <<>>)
    /\ LastAtOrAfterStart =>
          /\ Len(requests) <= CeilDiv(end_ms - start_ms, 300000)
          /\ \A k \in 2..Len(requests) :
                requests[k].startTime > requests[k - 1].startTime
    /\ lookback_hours <= 0 => requests = <<>>

\* C10: when every page is ascending and inside [startTime, endTime] of its
\* request, no open_time is collected twice, and the sorted series of a
\* successful response is strictly increasing by timestamp.
C10_NoCandleTwice ==
    PagesInRange =>
        /\ \A i, j \in DOMAIN all_data :
              i < j => OpenTime(all_data[i]) < OpenTime(all_data[j])
        /\ Done200 =>
              \A i \in 1..(Len(df.timestamp) - 1) :
                  df.timestamp[i] < df.timestamp[i + 1]

C10_Witness ==
    /\ Done200
    /\ PagesInRange
    /\ Len(pages) >= 3
    /\ interval = "3m"
    /\ Len(df.timestamp) >= 3

====
